---- MODULE Spec2Model ----
(***************************************************************************)
(* A model of pikaraoke's play database (pikaraoke/lib/database.py):       *)
(* the users / user_aliases / plays tables of PlayDatabase and the         *)
(* operations that read and write them.                                    *)
(*                                                                         *)
(* users   : the rows of table users (set of canonical_name)               *)
(* aliases : the rows of table user_aliases (alias -> canonical_name)      *)
(* plays   : the rows of table plays, in id order (id = position, the      *)
(*           table is AUTOINCREMENT and no statement deletes from it)      *)
(* now     : the value datetime('now') yields, in ticks                    *)
(* tx      : the open write transaction, of which SQLite allows one at a   *)
(*           time (its position and the view of its connection: committed  *)
(*           rows plus pending writes)                                     *)
(* calls   : per worker, the call it is in when calls run concurrently:    *)
(*           the operation, its position, its arguments and its outcome    *)
(* raised  : the exception the last completed call raised to its caller,  *)
(*           "no" when it returned normally                                *)
(* lastAliasOp : history, per alias name: the last completed               *)
(*           set_user_alias / remove_user_alias on that name               *)
(***************************************************************************)
EXTENDS Integers, Sequences, FiniteSets, TLC

VARIABLES users, aliases, plays, now, tx, raised, lastAliasOp, calls

vars == <<users, aliases, plays, now, tx, raised, lastAliasOp, calls>>

\* ---------------------------------------------------------------- bounds
MaxPlays == 2
MaxTime == 2
MaxLines == 2

\* ---------------------------------------------------------------- inputs
Names == {"al", "alice", "bob"}
Songs == {"X", "Y"}
\* a falsy user argument (None or the empty string): `if user:` is false
NoName == ""
\* a falsy song argument
NoSong == ""
\* a falsy date filter
NoDate == -1
Times == 0..MaxTime
\* SQLite's date(timestamp): the calendar day of a timestamp (two ticks a day)
DateOf(t) == t \div 2
Dates == {DateOf(t) : t \in Times}

\* ---------------------------------------------------------------- tables
EmptyAliases == [k \in {} |-> "al"]

\* INSERT OR IGNORE INTO users (canonical_name) VALUES (name)
insert_or_ignore_user(U, name) == U \cup {name}

\* (seeded fault) INSERT OR IGNORE: an existing alias row keeps its target
insert_or_ignore_alias(A, alias, canonical) ==
    [k \in (DOMAIN A) \cup {alias} |-> IF k \in DOMAIN A THEN A[k] ELSE canonical]

\* INSERT OR REPLACE INTO user_aliases (alias, canonical_name) VALUES (alias, canonical)
insert_or_replace_alias(A, alias, canonical) ==
    [k \in (DOMAIN A) \cup {alias} |-> IF k = alias THEN canonical ELSE A[k]]

\* (seeded fault) DELETE FROM user_aliases WHERE canonical_name = alias
delete_alias_by_target(A, alias) == [k \in {j \in DOMAIN A : A[j] # alias} |-> A[k]]

\* DELETE FROM user_aliases WHERE alias = alias
delete_alias(A, alias) == [k \in (DOMAIN A) \ {alias} |-> A[k]]

\* ---------------------------------------------------------------- resolver
\* (seeded fault) the INSERT OR IGNORE into users is left out
resolve_without_insert(user, U, A) ==
    [val |-> IF user \in DOMAIN A THEN A[user] ELSE user, users |-> U]

\* (seeded fault) INSERT OR IGNORE INTO users runs before the alias lookup
resolve_insert_first(user, U, A) ==
    [val |-> IF user \in DOMAIN A THEN A[user] ELSE user,
     users |-> insert_or_ignore_user(U, user)]

\* _resolve_canonical_user: the alias row's target when user is an alias key,
\* else user itself after INSERT OR IGNORE into users (committed on return).
resolve_canonical_user(user, U, A) ==
    IF user \in DOMAIN A
    THEN [val |-> A[user], users |-> U]
    ELSE [val |-> user, users |-> insert_or_ignore_user(U, user)]

\* the request workers that call into the store concurrently
Workers == {"w1", "w2"}

\* a worker between calls
NoCall == [op |-> "none", pc |-> "idle", user |-> NoName, song |-> NoSong,
           val |-> NoName, raised |-> "no", entries |-> <<>>, pending |-> <<>>]

Idle == [pc |-> "idle", alias |-> NoName, canonical |-> NoName,
         users |-> {}, aliases |-> EmptyAliases]

Init ==
    /\ users = {}
    /\ aliases = EmptyAliases
    /\ plays = <<>>
    /\ now = 0
    /\ tx = Idle
    /\ raised = "no"
    /\ lastAliasOp = [n \in Names |-> <<>>]
    /\ calls = [w \in Workers |-> NoCall]

\* datetime('now') moves on
Tick ==
    /\ tx.pc = "idle"
    /\ now < MaxTime
    /\ now' = now + 1
    /\ UNCHANGED <<users, aliases, plays, tx, raised, lastAliasOp, calls>>

\* resolve(name): a call of _resolve_canonical_user on its own
resolve(user) ==
    /\ tx.pc = "idle"
    /\ LET r == resolve_canonical_user(user, users, aliases) IN
        /\ users' = r.users
        /\ raised' = "no"
    /\ UNCHANGED <<aliases, plays, now, tx, lastAliasOp, calls>>

\* ---------------------------------------------------------------- aliases
\* (seeded fault) the canonical user is not ensured
set_user_alias_no_ensure(view, alias, canonical) == view

\* set_user_alias, first statement: ensure the canonical user exists
set_user_alias_ensure(view, alias, canonical) ==
    [view EXCEPT !.users = insert_or_ignore_user(@, canonical)]

\* set_user_alias, second statement: write the alias row
set_user_alias_write(view, alias, canonical) ==
    [view EXCEPT !.aliases = insert_or_replace_alias(@, alias, canonical)]

\* the connection set_user_alias opens: the committed rows, no pending write
connect(pc, alias, canonical) ==
    [pc |-> pc, alias |-> alias, canonical |-> canonical,
     users |-> users, aliases |-> aliases]

\* set_user_alias(alias, canonical_user): both statements and conn.commit()
set_user_alias(alias, canonical) ==
    /\ tx.pc = "idle"
    /\ LET ensured == set_user_alias_ensure(connect("idle", alias, canonical), alias, canonical)
           written == set_user_alias_write(ensured, alias, canonical)
       IN /\ users' = written.users
          /\ aliases' = written.aliases
    /\ raised' = "no"
    /\ lastAliasOp' = [lastAliasOp EXCEPT ![alias] = <<"set", canonical>>]
    /\ UNCHANGED <<plays, now, tx, calls>>

\* set_user_alias statement by statement: connect and run the first statement
set_user_alias_begin(alias, canonical) ==
    /\ tx.pc = "idle"
    /\ tx' = set_user_alias_ensure(connect("first", alias, canonical), alias, canonical)
    /\ UNCHANGED <<users, aliases, plays, now, raised, lastAliasOp, calls>>

\* ... the second statement, inside the same transaction
set_user_alias_second ==
    /\ tx.pc = "first"
    /\ tx' = [set_user_alias_write(tx, tx.alias, tx.canonical) EXCEPT !.pc = "second"]
    /\ UNCHANGED <<users, aliases, plays, now, raised, lastAliasOp, calls>>

\* ... conn.commit() publishes both writes, and the call returns
set_user_alias_commit ==
    /\ tx.pc = "second"
    /\ users' = tx.users
    /\ aliases' = tx.aliases
    /\ raised' = "no"
    /\ lastAliasOp' = [lastAliasOp EXCEPT ![tx.alias] = <<"set", tx.canonical>>]
    /\ tx' = Idle
    /\ UNCHANGED <<plays, now, calls>>

\* remove_user_alias(alias)
remove_user_alias(alias) ==
    /\ tx.pc = "idle"
    /\ aliases' = delete_alias(aliases, alias)
    /\ raised' = "no"
    /\ lastAliasOp' = [lastAliasOp EXCEPT ![alias] = <<"removed">>]
    /\ UNCHANGED <<users, plays, now, tx, calls>>

\* ---------------------------------------------------------------- ledger
\* a row of table plays
PlayRow(id, timestamp, canonical_name, song, duration, completed) ==
    [id |-> id, timestamp |-> timestamp, canonical_name |-> canonical_name,
     song |-> song, duration |-> duration, completed |-> completed]

\* (seeded fault) a play whose timestamp, name and song are those of a row
\* of the table is not inserted (a unique index and INSERT OR IGNORE)
insert_play_unless_exists(P, timestamp, canonical_name, song, duration, completed) ==
    IF \E i \in 1..Len(P) : /\ P[i].timestamp = timestamp
                              /\ P[i].canonical_name = canonical_name
                              /\ P[i].song = song
    THEN P
    ELSE Append(P, PlayRow(Len(P) + 1, timestamp, canonical_name, song, duration, completed))

\* add_play's INSERT INTO plays (...) VALUES (datetime('now'), ?, ?, ?, ?)
insert_play(P, timestamp, canonical_name, song, duration, completed) ==
    Append(P, PlayRow(Len(P) + 1, timestamp, canonical_name, song, duration, completed))

\* add_play(song, user, duration=None, completed): resolve, then insert and commit
add_play(song, user, completed) ==
    /\ tx.pc = "idle"
    /\ Len(plays) < MaxPlays
    /\ LET r == resolve_canonical_user(user, users, aliases) IN
        /\ users' = r.users
        /\ plays' = insert_play(plays, now, r.val, song, <<>>, completed)
    /\ raised' = "no"
    /\ UNCHANGED <<aliases, now, tx, lastAliasOp, calls>>

\* (seeded fault) UPDATE plays SET canonical_name = ? without WHERE id = ?
update_canonical_name_all(P, play_id, canonical_name) ==
    [i \in 1..Len(P) |-> [P[i] EXCEPT !.canonical_name = canonical_name]]

\* UPDATE plays SET canonical_name = ? WHERE id = ?
update_canonical_name(P, play_id, canonical_name) ==
    [i \in 1..Len(P) |->
        IF P[i].id = play_id THEN [P[i] EXCEPT !.canonical_name = canonical_name] ELSE P[i]]

\* UPDATE plays SET song = ? WHERE id = ?
update_song(P, play_id, song) ==
    [i \in 1..Len(P) |-> IF P[i].id = play_id THEN [P[i] EXCEPT !.song = song] ELSE P[i]]

\* (seeded fault) the play is given the name as typed, which is neither
\* resolved nor made an identity row
update_play_as_typed(play_id, user, song) ==
    /\ tx.pc = "idle"
    /\ LET P1 == IF user # NoName THEN update_canonical_name(plays, play_id, user) ELSE plays
           P2 == IF song # NoSong THEN update_song(P1, play_id, song) ELSE P1
       IN plays' = P2
    /\ raised' = "no"
    /\ UNCHANGED <<users, aliases, now, tx, lastAliasOp, calls>>

\* update_play(play_id, user=None, song=None)
update_play(play_id, user, song) ==
    /\ tx.pc = "idle"
    /\ LET r == IF user # NoName
                THEN resolve_canonical_user(user, users, aliases)
                ELSE [val |-> NoName, users |-> users]
           P1 == IF user # NoName THEN update_canonical_name(plays, play_id, r.val) ELSE plays
           P2 == IF song # NoSong THEN update_song(P1, play_id, song) ELSE P1
       IN /\ users' = r.users
          /\ plays' = P2
    /\ raised' = "no"
    /\ UNCHANGED <<aliases, now, tx, lastAliasOp, calls>>

\* ---------------------------------------------------------------- importer
\* One line of the log file.  kind: "invalid_json" (json.loads raises
\* JSONDecodeError), "not_object" (valid JSON that is no dict) or "object";
\* user_kind: "absent" (no "user" key), "string" or "number" (a value without
\* .strip()).  The has_* flags say whether the key is present.
Line(kind, user_kind, user, has_song, song, has_timestamp, timestamp, has_duration, duration) ==
    [kind |-> kind, user_kind |-> user_kind, user |-> user,
     has_song |-> has_song, song |-> song,
     has_timestamp |-> has_timestamp, timestamp |-> timestamp,
     has_duration |-> has_duration, duration |-> duration]

InvalidJson == Line("invalid_json", "absent", "", FALSE, "", FALSE, 0, FALSE, 0)
NotObject == Line("not_object", "absent", "", FALSE, "", FALSE, 0, FALSE, 0)
\* a complete record without the optional duration
Entry(user, song, timestamp) ==
    Line("object", "string", user, TRUE, song, TRUE, timestamp, FALSE, 0)

\* str.strip() on the user strings the sources carry
strip(s) ==
    CASE s = " " -> ""
      [] s = " al " -> "al"
      [] s = " alice " -> "alice"
      [] s = " bob " -> "bob"
      [] OTHER -> s

\* entry.get("user", "").strip()
entry_user(entry) == strip(IF entry.user_kind = "absent" THEN "" ELSE entry.user)

\* the reading loop: [raised, entries].  JSONDecodeError is caught and the line
\* skipped; entry.get on a non-dict and .strip() on a non-string raise
\* AttributeError, which no except clause catches.
RECURSIVE read_entries(_)
read_entries(lines) ==
    IF lines = <<>> THEN [raised |-> "no", entries |-> <<>>]
    ELSE LET line == Head(lines) IN
         IF line.kind = "invalid_json" THEN read_entries(Tail(lines))
         ELSE IF line.kind = "not_object" \/ line.user_kind = "number"
         THEN [raised |-> "AttributeError", entries |-> <<>>]
         ELSE IF entry_user(line) = "" THEN read_entries(Tail(lines))
         ELSE LET rest == read_entries(Tail(lines)) IN
              IF rest.raised # "no" THEN rest
              ELSE [raised |-> "no", entries |-> <<line>> \o rest.entries]

\* (seeded fault) the parameters bound in the wrong order:
\* ... WHERE timestamp = ? AND canonical_name = ? AND song = ?, (timestamp, song, canonical_name)
play_exists_swapped(P, timestamp, canonical_name, song) ==
    \E i \in 1..Len(P) :
        /\ P[i].timestamp = timestamp
        /\ P[i].canonical_name = song
        /\ P[i].song = canonical_name

\* SELECT id FROM plays WHERE timestamp = ? AND canonical_name = ? AND song = ?
play_exists(P, timestamp, canonical_name, song) ==
    \E i \in 1..Len(P) :
        /\ P[i].timestamp = timestamp
        /\ P[i].canonical_name = canonical_name
        /\ P[i].song = song

\* the inserting loop, on the importer's connection (P holds its pending
\* inserts too): [raised, plays].  entry["timestamp"] and entry["song"] raise
\* KeyError when the key is absent.
RECURSIVE insert_entries(_, _, _)
insert_entries(entries, user_map, P) ==
    IF entries = <<>> THEN [raised |-> "no", plays |-> P]
    ELSE LET entry == Head(entries) IN
         IF ~entry.has_timestamp \/ ~entry.has_song
         THEN [raised |-> "KeyError", plays |-> P]
         ELSE LET canonical_name == user_map[entry_user(entry)]
                  duration == IF entry.has_duration THEN entry.duration ELSE 0
              IN insert_entries(Tail(entries), user_map,
                    IF play_exists(P, entry.timestamp, canonical_name, entry.song)
                    THEN P
                    ELSE insert_play(P, entry.timestamp, canonical_name, entry.song,
                                     <<duration>>, TRUE))

\* populate_from_log on an existing file: [raised, users, plays].  Each resolve
\* commits on its own connection; the inserts are committed together at the
\* end and rolled back when an exception leaves the with block.
import_log(lines, U, A, P) ==
    LET read == read_entries(lines) IN
    IF read.raised # "no" THEN [raised |-> read.raised, users |-> U, plays |-> P]
    ELSE LET users_to_resolve == {entry_user(read.entries[i]) : i \in 1..Len(read.entries)}
             user_map == [u \in users_to_resolve |-> resolve_canonical_user(u, U, A).val]
             U1 == U \cup UNION {resolve_canonical_user(u, U, A).users : u \in users_to_resolve}
             ins == insert_entries(read.entries, user_map, P)
         IN [raised |-> ins.raised, users |-> U1,
             plays |-> IF ins.raised = "no" THEN ins.plays ELSE P]

\* populate_from_log(log_file_path): exists = os.path.exists(log_file_path)
populate_from_log(exists, lines) ==
    /\ tx.pc = "idle"
    /\ LET r == IF exists THEN import_log(lines, users, aliases, plays)
                ELSE [raised |-> "no", users |-> users, plays |-> plays]
       IN /\ Len(r.plays) <= MaxPlays
          /\ users' = r.users
          /\ plays' = r.plays
          /\ raised' = r.raised
    /\ UNCHANGED <<aliases, now, tx, lastAliasOp, calls>>

\* ---------------------------------------------------------------- queries
Min(a, b) == IF a < b THEN a ELSE b

\* the orders a SELECT may return the rows `keys` in, when before(a, b) says
\* that row a may come before another row b (rows that tie come in either order)
Orderings(keys, before(_, _)) ==
    LET n == Cardinality(keys) IN
    {f \in [1..n -> keys] :
        /\ \A j, k \in 1..n : j # k => f[j] # f[k]
        /\ \A j, k \in 1..n : j < k => before(f[j], f[k])}

\* LIMIT limit OFFSET offset (a negative limit is no limit)
limit_offset(rows, limit, offset) ==
    SubSeq(rows, offset + 1,
           IF limit < 0 THEN Len(rows) ELSE Min(Len(rows), offset + limit))

\* _build_filter_clause(user_filter, date_filter): the WHERE clause's
\* parameters, and table users after resolving a truthy user_filter
build_filter_clause(user_filter, date_filter, U, A) ==
    LET r == IF user_filter # NoName
             THEN resolve_canonical_user(user_filter, U, A)
             ELSE [val |-> NoName, users |-> U]
    IN [users |-> r.users,
        has_user |-> user_filter # NoName, canonical_user |-> r.val,
        has_date |-> date_filter # NoDate, date |-> date_filter]

\* WHERE p.canonical_name = ? AND date(p.timestamp) = ?
where_clause(row, clause) ==
    /\ clause.has_user => row.canonical_name = clause.canonical_user
    /\ clause.has_date => DateOf(row.timestamp) = clause.date

\* the ids of the rows of plays a filtered SELECT ranges over
filtered_ids(P, clause) == {i \in 1..Len(P) : where_clause(P[i], clause)}

\* (seeded fault) ORDER BY p.timestamp ASC
order_by_timestamp_asc(P, clause, i, j) ==
    \/ P[i].timestamp < P[j].timestamp
    \/ P[i].timestamp = P[j].timestamp /\ (clause.has_user \/ i < j)

\* ORDER BY p.timestamp DESC: may row i come before row j?  Without a user
\* filter SQLite serves the order by scanning idx_plays_timestamp backwards,
\* so rows of one timestamp come latest id first; with a user filter it
\* searches idx_plays_canonical_name and sorts, and rows of one timestamp
\* come in an order the statement does not fix.
order_by_timestamp_desc(P, clause, i, j) ==
    \/ P[i].timestamp > P[j].timestamp
    \/ P[i].timestamp = P[j].timestamp /\ (clause.has_user \/ i > j)

\* get_last_plays: every result the query may return (rows of timestamp,
\* canonical_name, song, completed; ORDER BY p.timestamp DESC LIMIT ? OFFSET ?)
get_last_plays_rows(limit, offset, date_filter, user_filter, U, A, P) ==
    LET clause == build_filter_clause(user_filter, date_filter, U, A)
        before(i, j) == order_by_timestamp_desc(P, clause, i, j)
        row(i) == <<P[i].timestamp, P[i].canonical_name, P[i].song, P[i].completed>>
    IN {limit_offset([k \in DOMAIN f |-> row(f[k])], limit, offset) :
            f \in Orderings(filtered_ids(P, clause), before)}

\* get_last_plays(limit, offset, date_filter, user_filter)
get_last_plays(limit, offset, date_filter, user_filter) ==
    /\ tx.pc = "idle"
    /\ users' = build_filter_clause(user_filter, date_filter, users, aliases).users
    /\ raised' = "no"
    /\ UNCHANGED <<aliases, plays, now, tx, lastAliasOp, calls>>

\* (seeded fault) the date condition is left out of the count
get_plays_count_any_date(date_filter, user_filter, U, A, P) ==
    Cardinality(filtered_ids(P, build_filter_clause(user_filter, NoDate, U, A)))

\* get_plays_count: SELECT COUNT(*) FROM plays p{where_clause}
get_plays_count_value(date_filter, user_filter, U, A, P) ==
    Cardinality(filtered_ids(P, build_filter_clause(user_filter, date_filter, U, A)))

\* get_plays_count(date_filter, user_filter)
get_plays_count(date_filter, user_filter) ==
    /\ tx.pc = "idle"
    /\ users' = build_filter_clause(user_filter, date_filter, users, aliases).users
    /\ raised' = "no"
    /\ UNCHANGED <<aliases, plays, now, tx, lastAliasOp, calls>>

\* get_plays_by_user: every result the query may return (rows of id,
\* timestamp, canonical_name, song, completed).  The user is resolved, and the
\* resolved name is resolved again inside _build_filter_clause.
get_plays_by_user_rows(user, date_filter, U, A, P) ==
    LET first == IF user # NoName
                 THEN resolve_canonical_user(user, U, A)
                 ELSE [val |-> NoName, users |-> U]
        clause == build_filter_clause(first.val, date_filter, first.users, A)
        before(i, j) == order_by_timestamp_desc(P, clause, i, j)
        row(i) == <<P[i].id, P[i].timestamp, P[i].canonical_name, P[i].song, P[i].completed>>
    IN {[k \in DOMAIN f |-> row(f[k])] :
            f \in Orderings(filtered_ids(P, clause), before)}

\* table users after get_plays_by_user's two resolutions
get_plays_by_user_users(user, date_filter, U, A) ==
    LET first == IF user # NoName
                 THEN resolve_canonical_user(user, U, A)
                 ELSE [val |-> NoName, users |-> U]
    IN build_filter_clause(first.val, date_filter, first.users, A).users

\* get_plays_by_user(user, date_filter)
get_plays_by_user(user, date_filter) ==
    /\ tx.pc = "idle"
    /\ users' = get_plays_by_user_users(user, date_filter, users, aliases)
    /\ raised' = "no"
    /\ UNCHANGED <<aliases, plays, now, tx, lastAliasOp, calls>>

\* SQLite's BINARY collation on the names of the model
name_rank(n) == CASE n = "al" -> 1 [] n = "alice" -> 2 [] n = "bob" -> 3 [] OTHER -> 0

\* COUNT(*) of the completed plays of one canonical name
completed_count(P, canonical_name) ==
    Cardinality({i \in 1..Len(P) : P[i].completed /\ P[i].canonical_name = canonical_name})

\* the groups of get_top_users: plays p JOIN users u ON p.canonical_name =
\* u.canonical_name WHERE p.completed = 1 GROUP BY u.canonical_name
top_users_groups(U, P) ==
    {u \in U : \E i \in 1..Len(P) : P[i].completed /\ P[i].canonical_name = u}

\* get_top_users: every result the query may return (rows of canonical_name,
\* count); invalid sort parameters fall back to count / DESC
get_top_users_rows(limit, offset, sort_by, sort_order, U, P) ==
    LET by == IF sort_by \in {"user", "count"} THEN sort_by ELSE "count"
        order == IF sort_order \in {"ASC", "DESC"} THEN sort_order ELSE "DESC"
        key(u) == IF by = "user" THEN name_rank(u) ELSE completed_count(P, u)
        before_or_tie(a, b) == IF order = "ASC" THEN key(a) <= key(b) ELSE key(a) >= key(b)
    IN {limit_offset([k \in DOMAIN f |-> <<f[k], completed_count(P, f[k])>>], limit, offset) :
            f \in Orderings(top_users_groups(U, P), before_or_tie)}

\* get_top_users(limit, offset, sort_by, sort_order)
get_top_users(limit, offset, sort_by, sort_order) ==
    /\ tx.pc = "idle"
    /\ raised' = "no"
    /\ UNCHANGED <<users, aliases, plays, now, tx, lastAliasOp, calls>>

\* (seeded fault) the WHERE completed = 1 is left out
top_users_count_all(P) == Cardinality({P[i].canonical_name : i \in 1..Len(P)})

\* get_top_users_count: SELECT COUNT(DISTINCT canonical_name) FROM plays WHERE completed = 1
top_users_count(P) ==
    Cardinality({P[i].canonical_name : i \in {j \in 1..Len(P) : P[j].completed}})

\* get_top_users_count()
get_top_users_count ==
    /\ tx.pc = "idle"
    /\ raised' = "no"
    /\ UNCHANGED <<users, aliases, plays, now, tx, lastAliasOp, calls>>

\* (seeded fault) COUNT(*) without WHERE completed = 1
song_count_all(P, ids, song) ==
    Cardinality({i \in ids : P[i].song = song})

\* COUNT(*) of the completed plays of one song among the rows ids
song_count(P, ids, song) ==
    Cardinality({i \in ids : P[i].completed /\ P[i].song = song})

\* SELECT song, COUNT(*) as count FROM plays WHERE <ids> AND completed = 1
\* GROUP BY song ORDER BY count DESC LIMIT ?: every result the query may
\* return (songs of one count come in either order)
top_songs_rows(limit, P, ids) ==
    LET groups == {P[i].song : i \in {j \in ids : P[j].completed}}
        before(a, b) == song_count(P, ids, a) >= song_count(P, ids, b)
    IN {limit_offset([k \in DOMAIN f |-> <<f[k], song_count(P, ids, f[k])>>], limit, 0) :
            f \in Orderings(groups, before)}

\* get_top_songs: every result the query may return
get_top_songs_rows(limit, P) == top_songs_rows(limit, P, 1..Len(P))

\* get_top_songs(limit)
get_top_songs(limit) ==
    /\ tx.pc = "idle"
    /\ raised' = "no"
    /\ UNCHANGED <<users, aliases, plays, now, tx, lastAliasOp, calls>>

\* strftime('%Y-%m', t) and strftime('%Y', t): two days a month, two months a year
MonthOf(t) == DateOf(t) \div 2
YearOf(t) == MonthOf(t) \div 2

\* (seeded fault) a period that is not month or year is taken as day
top_songs_by_period_lenient(period, limit, P, t) ==
    LET of(x) == IF period = "month" THEN MonthOf(x)
                 ELSE IF period = "year" THEN YearOf(x) ELSE DateOf(x)
    IN [raised |-> "no",
        rows |-> top_songs_rows(limit, P, {i \in 1..Len(P) : of(P[i].timestamp) = of(t)})]

\* get_top_songs_by_period at clock t: [raised, rows], rows being every
\* result the query may return.  A period other than day, month and year
\* raises ValueError before a connection is opened.
top_songs_by_period(period, limit, P, t) ==
    IF period \notin {"day", "month", "year"}
    THEN [raised |-> "ValueError", rows |-> {}]
    ELSE LET of(x) == IF period = "day" THEN DateOf(x)
                      ELSE IF period = "month" THEN MonthOf(x) ELSE YearOf(x)
         IN [raised |-> "no",
             rows |-> top_songs_rows(limit, P,
                         {i \in 1..Len(P) : of(P[i].timestamp) = of(t)})]

\* get_top_songs_by_period(period, limit)
get_top_songs_by_period(period, limit) ==
    /\ tx.pc = "idle"
    /\ raised' = top_songs_by_period(period, limit, plays, now).raised
    /\ UNCHANGED <<users, aliases, plays, now, tx, lastAliasOp, calls>>

\* ---------------------------------------------------------------- lookups
\* get_user_aliases: SELECT alias, canonical_name FROM user_aliases
get_user_aliases_rows(A) == {<<alias, A[alias]>> : alias \in DOMAIN A}

\* get_user_aliases()
get_user_aliases ==
    /\ tx.pc = "idle"
    /\ raised' = "no"
    /\ UNCHANGED <<users, aliases, plays, now, tx, lastAliasOp, calls>>

\* get_distinct_users: SELECT canonical_name FROM users UNION SELECT alias
\* FROM user_aliases ORDER BY 1
get_distinct_users_rows(U, A) ==
    LET before(a, b) == name_rank(a) < name_rank(b)
    IN Orderings(U \cup DOMAIN A, before)

\* get_distinct_users()
get_distinct_users ==
    /\ tx.pc = "idle"
    /\ raised' = "no"
    /\ UNCHANGED <<users, aliases, plays, now, tx, lastAliasOp, calls>>

\* get_distinct_dates: SELECT DISTINCT date(timestamp) as date FROM plays
\* ORDER BY date DESC
get_distinct_dates_rows(P) ==
    LET before(a, b) == a > b
    IN Orderings({DateOf(P[i].timestamp) : i \in 1..Len(P)}, before)

\* get_distinct_dates()
get_distinct_dates ==
    /\ tx.pc = "idle"
    /\ raised' = "no"
    /\ UNCHANGED <<users, aliases, plays, now, tx, lastAliasOp, calls>>

\* SQLite's BINARY collation on the songs of the model
song_rank(s) == CASE s = "X" -> 1 [] s = "Y" -> 2 [] OTHER -> 0

\* get_distinct_songs: SELECT DISTINCT song FROM plays ORDER BY song
get_distinct_songs_rows(P) ==
    LET before(a, b) == song_rank(a) < song_rank(b)
    IN Orderings({P[i].song : i \in 1..Len(P)}, before)

\* get_distinct_songs()
get_distinct_songs ==
    /\ tx.pc = "idle"
    /\ raised' = "no"
    /\ UNCHANGED <<users, aliases, plays, now, tx, lastAliasOp, calls>>

\* ---------------------------------------------------------------- concurrent calls
\* Calls of several workers, one storage step at a time.  A statement that
\* reads sees the committed rows; a statement that writes waits (SQLite's
\* busy handler) until no other write transaction is open.

\* (seeded fault) INSERT INTO users without OR IGNORE: a row that exists
\* violates the primary key
insert_user_abort(U, name) ==
    [raised |-> IF name \in U THEN "IntegrityError" ELSE "no",
     users |-> U \cup {name}]

\* INSERT OR IGNORE INTO users (canonical_name) VALUES (?), as a statement
\* with an outcome: [raised, users]
insert_user_statement(U, name) ==
    [raised |-> "no", users |-> insert_or_ignore_user(U, name)]

\* the calls of the other workers that will insert a play
pending_plays(w) ==
    Cardinality({v \in Workers \ {w} :
                    calls[v].op = "add_play" /\ calls[v].pc \notin {"idle", "done"}})

\* worker w calls _resolve_canonical_user(user), add_play("X", user) or
\* update_play(1, user)
call(w, op, user) ==
    /\ calls[w].pc \in {"idle", "done"}
    /\ op = "add_play" => Len(plays) + pending_plays(w) < MaxPlays
    /\ calls' = [calls EXCEPT ![w] = [op |-> op, pc |-> "select", user |-> user,
                                       song |-> "X", val |-> NoName, raised |-> "no",
                                       entries |-> <<>>, pending |-> <<>>]]
    /\ UNCHANGED <<users, aliases, plays, now, tx, raised, lastAliasOp>>

\* _resolve_canonical_user returns val: a bare resolve is over, add_play and
\* update_play go on to their own statement, populate_from_log to its
\* inserting loop
resolved(c, val) ==
    [c EXCEPT !.val = val,
              !.pc = IF c.op = "resolve" THEN "done"
                     ELSE IF c.op = "populate_from_log" THEN "exists" ELSE "write"]

\* SELECT canonical_name FROM user_aliases WHERE alias = ?
resolve_select(w) ==
    /\ calls[w].pc = "select"
    /\ calls' = [calls EXCEPT ![w] =
                    IF @.user \in DOMAIN aliases
                    THEN resolved(@, aliases[@.user])
                    ELSE [@ EXCEPT !.pc = "insert"]]
    /\ UNCHANGED <<users, aliases, plays, now, tx, raised, lastAliasOp>>

\* INSERT OR IGNORE INTO users: opens the write transaction
resolve_insert(w) ==
    /\ calls[w].pc = "insert"
    /\ tx.pc = "idle"
    /\ LET st == insert_user_statement(users, calls[w].user) IN
        IF st.raised = "no"
        THEN /\ tx' = [connect("resolve", NoName, calls[w].user) EXCEPT !.users = st.users]
             /\ calls' = [calls EXCEPT ![w].pc = "commit"]
        ELSE /\ tx' = tx
             /\ calls' = [calls EXCEPT ![w].pc = "done", ![w].raised = st.raised]
    /\ UNCHANGED <<users, aliases, plays, now, raised, lastAliasOp>>

\* leaving the with block commits the insert; the name is returned
resolve_commit(w) ==
    /\ calls[w].pc = "commit"
    /\ users' = tx.users
    /\ tx' = Idle
    /\ calls' = [calls EXCEPT ![w] = resolved(@, @.user)]
    /\ UNCHANGED <<aliases, plays, now, raised, lastAliasOp>>

\* add_play's INSERT INTO plays, update_play's UPDATE plays: opens the write
\* transaction
write_begin(w) ==
    /\ calls[w].pc = "write"
    /\ tx.pc = "idle"
    /\ tx' = connect("write", NoName, calls[w].val)
    /\ calls' = [calls EXCEPT ![w].pc = "write_commit"]
    /\ UNCHANGED <<users, aliases, plays, now, raised, lastAliasOp>>

\* conn.commit() of add_play and update_play
write_commit(w) ==
    /\ calls[w].pc = "write_commit"
    /\ plays' = IF calls[w].op = "add_play"
                THEN insert_play(plays, now, calls[w].val, calls[w].song, <<>>, TRUE)
                ELSE update_canonical_name(plays, 1, calls[w].val)
    /\ tx' = Idle
    /\ calls' = [calls EXCEPT ![w].pc = "done"]
    /\ UNCHANGED <<users, aliases, now, raised, lastAliasOp>>

\* worker w calls populate_from_log on a file whose records name one user:
\* the reading loop, up to the call that resolves that user
populate_from_log_call(w, lines) ==
    /\ calls[w].pc \in {"idle", "done"}
    /\ LET read == read_entries(lines) IN
        calls' = [calls EXCEPT ![w] =
                    [op |-> "populate_from_log",
                     pc |-> IF read.raised # "no" THEN "done"
                            ELSE IF read.entries = <<>> THEN "commit_plays" ELSE "select",
                     user |-> IF read.raised = "no" /\ read.entries # <<>>
                              THEN entry_user(read.entries[1]) ELSE NoName,
                     song |-> NoSong, val |-> NoName, raised |-> read.raised,
                     entries |-> IF read.raised = "no" THEN read.entries ELSE <<>>,
                     pending |-> <<>>]]
    /\ UNCHANGED <<users, aliases, plays, now, tx, raised, lastAliasOp>>

\* the rows worker w's connection sees in plays: the committed rows and the
\* inserts pending in its own transaction
plays_seen(w) == plays \o calls[w].pending

\* after the entry at the head of the loop: the next entry, or conn.commit()
next_entry(c) ==
    [c EXCEPT !.entries = Tail(@),
              !.pc = IF Tail(c.entries) = <<>> THEN "commit_plays" ELSE "exists"]

\* SELECT id FROM plays WHERE timestamp = ? AND canonical_name = ? AND song = ?
\* for the entry at the head of the loop; entry["timestamp"] and
\* entry["song"] raise KeyError, which rolls the pending inserts back
populate_from_log_exists(w) ==
    /\ calls[w].pc = "exists"
    /\ LET entry == Head(calls[w].entries) IN
        IF ~entry.has_timestamp \/ ~entry.has_song
        THEN /\ calls' = [calls EXCEPT ![w].pc = "done", ![w].raised = "KeyError",
                                        ![w].pending = <<>>]
             /\ tx' = IF calls[w].pending # <<>> THEN Idle ELSE tx
        ELSE /\ calls' = [calls EXCEPT ![w] =
                            IF play_exists(plays_seen(w), entry.timestamp, @.val, entry.song)
                            THEN next_entry(@)
                            ELSE [@ EXCEPT !.pc = "insert_play"]]
             /\ tx' = tx
    /\ UNCHANGED <<users, aliases, plays, now, raised, lastAliasOp>>

\* INSERT INTO plays (...) VALUES (?, ?, ?, ?, 1) for that entry: the first
\* insert opens the write transaction, the later ones run inside it
populate_from_log_insert(w) ==
    /\ calls[w].pc = "insert_play"
    /\ tx.pc = "idle" \/ calls[w].pending # <<>>
    /\ Len(plays_seen(w)) < MaxPlays
    /\ LET entry == Head(calls[w].entries)
           duration == IF entry.has_duration THEN entry.duration ELSE 0
           seen == insert_play(plays_seen(w), entry.timestamp, calls[w].val, entry.song,
                               <<duration>>, TRUE)
       IN calls' = [calls EXCEPT ![w] =
                      next_entry([@ EXCEPT !.pending = SubSeq(seen, Len(plays) + 1, Len(seen))])]
    /\ tx' = connect("populate_from_log", NoName, calls[w].val)
    /\ UNCHANGED <<users, aliases, plays, now, raised, lastAliasOp>>

\* conn.commit() at the end of populate_from_log publishes the inserts
populate_from_log_commit(w) ==
    /\ calls[w].pc = "commit_plays"
    /\ plays' = plays_seen(w)
    /\ tx' = IF calls[w].pending # <<>> THEN Idle ELSE tx
    /\ calls' = [calls EXCEPT ![w].pc = "done", ![w].pending = <<>>]
    /\ UNCHANGED <<users, aliases, now, raised, lastAliasOp>>

\* ---------------------------------------------------------------- system
\* the sequences of at most MaxLines lines over a set of lines
Sources(lines) == UNION {[1..n -> lines] : n \in 0..MaxLines}

PlayIds == 1..(MaxPlays + 1)
Limits == 1..(MaxPlays + 1)
AliasKeys == {"al", "alice"}
AliasTargets == {"alice", "bob"}

\* the lines of the log files of the system runs
LogLines ==
    {NotObject, Entry("al", "X", 0), Entry(" bob ", "X", 0)}

\* every operation of the database, on plays of one song at one time
Next ==
    \/ \E n \in Names : resolve(n)
    \/ \E a \in AliasKeys, c \in AliasTargets : set_user_alias(a, c)
    \/ remove_user_alias("al")
    \/ \E u \in Names, c \in BOOLEAN : add_play("X", u, c)
    \/ \E i \in PlayIds, u \in Names \cup {NoName}, s \in {NoSong, "X"} :
          update_play(i, u, s)
    \/ \E src \in Sources(LogLines) : populate_from_log(TRUE, src)
    \/ populate_from_log(FALSE, <<>>)
    \/ \E u \in Names \cup {NoName} : get_last_plays(1, 0, NoDate, u)
    \/ \E u \in Names \cup {NoName} : get_plays_by_user(u, NoDate)
    \/ \E b \in {"user", "count"} : get_top_users(1, 0, b, "DESC")
    \/ get_top_users_count

Spec == Init /\ [][Next]_vars

\* the resolver and the alias table, with set_user_alias run statement by
\* statement, and plays recorded under the resolved names
NextAlias ==
    \/ \E n \in Names : resolve(n)
    \/ \E a \in Names, c \in Names : set_user_alias_begin(a, c)
    \/ set_user_alias_second
    \/ set_user_alias_commit
    \/ \E a \in Names : remove_user_alias(a)
    \/ \E u \in Names : add_play("X", u, TRUE)

SpecAlias == Init /\ [][NextAlias]_vars

\* the lines of the log files imported while the clock runs
HistoryLines == {Entry("bob", "Y", t) : t \in Times}

\* the ledger in time: plays recorded now, under a name or its alias, and
\* plays imported with the timestamps of their log
NextHistory ==
    \/ Tick
    \/ set_user_alias("al", "alice")
    \/ \E s \in Songs, u \in {"al", "alice"} : add_play(s, u, TRUE)
    \/ \E src \in Sources(HistoryLines) : populate_from_log(TRUE, src)
    \/ get_last_plays(1, 0, NoDate, NoName)

SpecHistory == Init /\ [][NextHistory]_vars

\* the lines of the imported log files: well-formed records (one name bare,
\* padded and with a duration) and every kind of malformed line
ImportLines ==
    {Entry("al", "X", 0), Entry(" al ", "X", 0),
     Line("object", "string", "alice", TRUE, "X", TRUE, 0, TRUE, 1),
     InvalidJson, NotObject,
     Line("object", "number", "", TRUE, "X", TRUE, 0, FALSE, 0),
     Line("object", "absent", "", TRUE, "X", TRUE, 0, FALSE, 0),
     Line("object", "string", " ", TRUE, "X", TRUE, 0, FALSE, 0),
     Line("object", "string", "bob", FALSE, "", TRUE, 0, FALSE, 0),
     Line("object", "string", "bob", TRUE, "X", FALSE, 0, FALSE, 0)}

\* the importer, between alias changes and recorded plays
NextImport ==
    \/ \E src \in Sources(ImportLines) : populate_from_log(TRUE, src)
    \/ populate_from_log(FALSE, <<>>)
    \/ \E c \in AliasTargets : set_user_alias("al", c)
    \/ remove_user_alias("al")
    \/ add_play("X", "alice", TRUE)

SpecImport == Init /\ [][NextImport]_vars

\* LIMIT -1: no bound on the number of rows
NoLimit == -1

\* the filtered list and count queries, over plays of several days recorded
\* under names and aliases (alias targets may be alias keys)
NextFilter ==
    \/ Tick
    \/ \E a \in AliasKeys, c \in AliasTargets : set_user_alias(a, c)
    \/ \E u \in {"al", "alice"} : add_play("X", u, TRUE)
    \/ \E d \in Dates \cup {NoDate}, u \in Names \cup {NoName} : get_plays_count(d, u)
    \/ \E d \in Dates \cup {NoDate}, u \in Names \cup {NoName} : get_last_plays(NoLimit, 0, d, u)
    \/ \E d \in Dates \cup {NoDate}, u \in Names \cup {NoName} : get_plays_by_user(u, d)

SpecFilter == Init /\ [][NextFilter]_vars

\* the period arguments of get_top_songs_by_period: the three it knows and
\* others (a typo, the empty string, another unit, another case)
Periods == {"day", "month", "year"}
OtherPeriods == {"period_typo", "", "week", "Day"}

\* the song leaderboards, over completed and abandoned plays of two songs
\* recorded on several days and corrected afterwards
NextSongs ==
    \/ Tick
    \/ \E s \in Songs, c \in BOOLEAN : add_play(s, "alice", c)
    \/ \E i \in PlayIds, s \in Songs : update_play(i, NoName, s)
    \/ \E l \in Limits : get_top_songs(l)
    \/ \E period \in Periods \cup OtherPeriods, l \in Limits : get_top_songs_by_period(period, l)

SpecSongs == Init /\ [][NextSongs]_vars

\* the calls that create an identity for bob, racing: resolving the name or
\* its alias al, recording and correcting plays, and set_user_alias with bob
\* as target
NextRace ==
    \/ \E w \in Workers, op \in {"resolve", "add_play", "update_play"}, u \in {"al", "bob"} :
          call(w, op, u)
    \/ \E w \in Workers : resolve_select(w)
    \/ \E w \in Workers : resolve_insert(w)
    \/ \E w \in Workers : resolve_commit(w)
    \/ \E w \in Workers : write_begin(w)
    \/ \E w \in Workers : write_commit(w)
    \/ set_user_alias_begin("al", "bob")
    \/ set_user_alias_second
    \/ set_user_alias_commit

SpecRace == Init /\ [][NextRace]_vars

\* corrections of recorded plays: plays of two songs recorded under a name
\* and under al, before and after al is made an alias, and update_play on
\* ids that exist and ids that do not
NextUpdate ==
    \/ set_user_alias("al", "alice")
    \/ \E s \in Songs, u \in {"al", "bob"}, c \in BOOLEAN : add_play(s, u, c)
    \/ \E i \in PlayIds, u \in {NoName, "al", "bob"}, s \in Songs \cup {NoSong} :
          update_play(i, u, s)

SpecUpdate == Init /\ [][NextUpdate]_vars

\* the log file that is imported again and again
ReimportSource == <<Entry("al", "X", 0)>>

\* imports of one log file between changes of the alias table; every play
\* of the ledger comes from an import of that file
NextReimport ==
    \/ populate_from_log(TRUE, ReimportSource)
    \/ \E a \in AliasKeys, c \in AliasTargets : set_user_alias(a, c)
    \/ \E a \in AliasKeys : remove_user_alias(a)

SpecReimport == Init /\ [][NextReimport]_vars

\* the log file two workers import at the same time: one record, on two lines
RaceSource == <<Entry("bob", "X", 0), Entry(" bob ", "X", 0)>>

\* imports of one log file by two workers, one storage step at a time
NextImportRace ==
    \/ \E w \in Workers : populate_from_log_call(w, RaceSource)
    \/ \E w \in Workers : resolve_select(w)
    \/ \E w \in Workers : resolve_insert(w)
    \/ \E w \in Workers : resolve_commit(w)
    \/ \E w \in Workers : populate_from_log_exists(w)
    \/ \E w \in Workers : populate_from_log_insert(w)
    \/ \E w \in Workers : populate_from_log_commit(w)

SpecImportRace == Init /\ [][NextImportRace]_vars

\* every read operation, with and without filters, over a store in which
\* plays are recorded under alice and al and alice are made aliases (alias
\* targets may be alias keys); only a read can make al an identity
NextRead ==
    \/ \E a \in AliasKeys, c \in AliasTargets : set_user_alias(a, c)
    \/ remove_user_alias("al")
    \/ \E s \in Songs : add_play(s, "alice", TRUE)
    \/ \E l \in {1, NoLimit}, d \in {NoDate, 0}, u \in Names \cup {NoName} :
          get_last_plays(l, 0, d, u)
    \/ \E d \in {NoDate, 0}, u \in Names \cup {NoName} : get_plays_count(d, u)
    \/ \E d \in {NoDate, 0}, u \in Names \cup {NoName} : get_plays_by_user(u, d)
    \/ \E l \in Limits : get_top_songs(l)
    \/ \E b \in {"user", "count"}, o \in {"ASC", "DESC"} : get_top_users(1, 0, b, o)
    \/ get_top_users_count
    \/ \E period \in Periods \cup OtherPeriods : get_top_songs_by_period(period, 1)
    \/ get_user_aliases
    \/ get_distinct_users
    \/ get_distinct_dates
    \/ get_distinct_songs

SpecRead == Init /\ [][NextRead]_vars

\* ================================================================ claims
\* what resolve(name) returns when called in the current state
resolve_value(name) == resolve_canonical_user(name, users, aliases).val

\* every alias row of A points at a row of U
alias_targets_exist(U, A) == \A k \in DOMAIN A : A[k] \in U

\* C1: while set_user_alias(a, c) is the last completed alias operation on a
\* (no later set_user_alias(a, _) or remove_user_alias(a)), resolve(a) returns
\* c, whether or not a has an identity row and whatever a pointed at before.
C1_ResolveAfterSetAlias ==
    \A a \in Names, c \in Names :
        lastAliasOp[a] = <<"set", c>> => resolve_value(a) = c

\* C1 witness: al has an identity row of its own and its last alias operation
\* pointed it at alice
C1_Witness ==
    /\ lastAliasOp["al"] = <<"set", "alice">>
    /\ "al" \in users
    /\ "bob" \in users
    /\ tx.pc = "idle"

\* C2: resolve(n) on a name that is neither an alias key nor an identity row
\* returns n and inserts the identity row n; the call leaves aliases and plays
\* as they were.
C2_ResolveUnseen ==
    /\ [](\A n \in Names :
            (n \notin DOMAIN aliases /\ n \notin users)
            => LET r == resolve_canonical_user(n, users, aliases)
               IN r.val = n /\ n \in r.users)
    /\ [][\A n \in Names :
            (resolve(n) /\ n \notin DOMAIN aliases /\ n \notin users)
            => /\ n \in users'
               /\ aliases' = aliases
               /\ plays' = plays]_vars

\* C2 witness: bob exists though no alias operation and no play ever named it
C2_Witness ==
    /\ "bob" \in users
    /\ \A n \in Names : lastAliasOp[n] = <<>>
    /\ \A i \in 1..Len(plays) : plays[i].canonical_name # "bob"
    /\ Len(plays) > 0

\* C3: while remove_user_alias(a) is the last completed alias operation on a,
\* resolve(a) returns a; and remove_user_alias(a) on a name that is no alias
\* key raises nothing and changes no table.
C3_ResolveAfterRemoveAlias ==
    /\ [](\A a \in Names : lastAliasOp[a] = <<"removed">> => resolve_value(a) = a)
    /\ [][\A a \in Names :
            (remove_user_alias(a) /\ a \notin DOMAIN aliases)
            => /\ raised' = "no"
               /\ UNCHANGED <<users, aliases, plays>>]_vars

\* C3 witness: al was an alias of alice and was removed, while another alias
\* still points at alice
C3_Witness ==
    /\ lastAliasOp["al"] = <<"removed">>
    /\ lastAliasOp["bob"] = <<"set", "alice">>
    /\ "alice" \in users
    /\ "al" \notin users

\* C8: every committed alias row points at an identity row, and so does every
\* alias row in the view of set_user_alias's open transaction.
C8_AliasTargetsExist ==
    /\ alias_targets_exist(users, aliases)
    /\ tx.pc # "idle" => alias_targets_exist(tx.users, tx.aliases)

\* C8 witness: the alias row is written, not yet committed, and its target was
\* created by the same transaction
C8_Witness ==
    /\ tx.pc = "second"
    /\ tx.alias \in DOMAIN tx.aliases
    /\ tx.canonical \notin users
    /\ tx.canonical \in tx.users

\* C7: the performer of every play is an identity row.
C7_PerformersExist ==
    \A i \in 1..Len(plays) : plays[i].canonical_name \in users

\* C7 witness: a recorded play and an imported play (duration defaulted to 0),
\* one of them corrected or recorded through the alias al
C7_Witness ==
    /\ Len(plays) = MaxPlays
    /\ \E i \in 1..Len(plays) : plays[i].duration = <<>> /\ plays[i].canonical_name = "alice"
    /\ \E i \in 1..Len(plays) : plays[i].duration = <<0>> /\ plays[i].canonical_name = "bob"
    /\ lastAliasOp["al"] = <<"set", "alice">>
    /\ "al" \notin users

\* the row get_plays_by_user returns for play i of P
by_user_row(P, i) ==
    <<P[i].id, P[i].timestamp, P[i].canonical_name, P[i].song, P[i].completed>>

\* C9: when set_user_alias(a, c) is the last alias operation on a, a play
\* recorded under a is in what get_plays_by_user(c) returns right after the
\* recording.
C9_PlaysByPerformerIncludesAliasPlay ==
    [][\A a \in Names, c \in Names, completed \in BOOLEAN :
         (lastAliasOp[a] = <<"set", c>> /\ add_play("X", a, completed))
         => \A rows \in get_plays_by_user_rows(c, NoDate, users', aliases', plays') :
              \E k \in 1..Len(rows) : rows[k] = by_user_row(plays', Len(plays'))]_vars

\* the lengths the pages 0 .. pages-1 of get_top_users may add up to
RECURSIVE page_length_sums(_, _, _, _)
page_length_sums(pages, limit, sort_by, sort_order) ==
    IF pages = 0 THEN {0}
    ELSE {total + Len(rows) :
            total \in page_length_sums(pages - 1, limit, sort_by, sort_order),
            rows \in get_top_users_rows(limit, (pages - 1) * limit, sort_by, sort_order,
                                       users, plays)}

\* ceil(count / limit), as the history route computes it
total_pages(count, limit) == (count + limit - 1) \div limit

\* C10: for every limit and sort, the lengths of the pages of get_top_users
\* add up to get_top_users_count().
C10_TopUsersPagination ==
    \A limit \in Limits, sort_by \in {"user", "count", "bogus"},
       sort_order \in {"ASC", "DESC", "bogus"} :
        page_length_sums(total_pages(top_users_count(plays), limit), limit,
                         sort_by, sort_order)
            = {top_users_count(plays)}

\* C10 witness: two performers with a completed play, one of them through an
\* alias (several pages at limit 1, a partial page at limit MaxPlays + 1)
C10_Witness ==
    /\ top_users_count(plays) = 2
    /\ lastAliasOp["al"] = <<"set", "alice">>
    /\ \E i \in 1..Len(plays) : plays[i].canonical_name = "alice"

\* the row get_last_plays returns for play i of P
last_plays_row(P, i) == <<P[i].timestamp, P[i].canonical_name, P[i].song, P[i].completed>>

\* what get_last_plays(1, 0) may return right after the step
last_play_after == get_last_plays_rows(1, 0, NoDate, NoName, users', aliases', plays')

\* C4 as claimed: right after add_play(song, user), get_last_plays(1, 0)
\* returns exactly the play just recorded, under resolve(user), whatever the
\* ledger held before.
C4_LastPlayIsRecordedPlay ==
    [][\A song \in Songs, user \in Names, completed \in BOOLEAN :
         add_play(song, user, completed)
         => last_play_after = {<< <<now, resolve_value(user), song, completed>> >>}]_vars

\* C4 amended: right after add_play(song, user), get_last_plays(1, 0) returns
\* exactly one play, one whose timestamp is the latest of the ledger; it is
\* the play just recorded, under resolve(user), when no play of the ledger
\* has a later timestamp.
C4_LastPlayIsLatestPlay ==
    [][\A song \in Songs, user \in Names, completed \in BOOLEAN :
         add_play(song, user, completed)
         => \A rows \in last_play_after :
              /\ Len(rows) = 1
              /\ \E i \in 1..Len(plays') :
                    /\ rows[1] = last_plays_row(plays', i)
                    /\ \A j \in 1..Len(plays') : plays'[j].timestamp <= plays'[i].timestamp
              /\ (\A j \in 1..Len(plays) : plays[j].timestamp <= now)
                 => rows[1] = <<now, resolve_value(user), song, completed>>]_vars

\* C4 witness: a play recorded through the alias al, at the timestamp of the
\* imported play the ledger held
C4_Witness ==
    /\ Len(plays) = 2
    /\ plays[1].duration = <<0>>
    /\ plays[2].duration = <<>>
    /\ plays[1].timestamp = plays[2].timestamp
    /\ plays[2].canonical_name = "alice"
    /\ lastAliasOp["al"] = <<"set", "alice">>
    /\ "al" \notin users

\* the key (timestamp, user, song) of a log line
line_key(line) == <<line.timestamp, entry_user(line), line.song>>

\* C5: importing a log file a second time, right after the first, inserts
\* nothing: the ledger after two runs is the ledger after one, also when the
\* file holds one record several times.
C5_ImportTwiceIsImportOnce ==
    \A src \in Sources(ImportLines) :
        LET once == import_log(src, users, aliases, plays)
            twice == import_log(src, once.users, aliases, once.plays)
        IN /\ Len(twice.plays) = Len(once.plays)
           /\ twice.plays = once.plays

\* C5 witness: the ledger holds an imported play, and a file that carries one
\* record twice is about to add one play to it
C5_Witness ==
    /\ \E i \in 1..Len(plays) : plays[i].duration = <<0>>
    /\ \E src \in Sources(ImportLines) :
          /\ Len(src) = 2
          /\ src[1].kind = "object" /\ src[2].kind = "object"
          /\ line_key(src[1]) = line_key(src[2])
          /\ LET once == import_log(src, users, aliases, plays)
             IN once.raised = "no" /\ Len(once.plays) = Len(plays) + 1

\* a line that carries a record: an object with a non-blank string user, a
\* song and a timestamp
well_formed(line) ==
    /\ line.kind = "object"
    /\ line.user_kind = "string"
    /\ entry_user(line) # ""
    /\ line.has_song
    /\ line.has_timestamp

\* C6: populate_from_log returns without raising whatever lines the file
\* holds, and every record of a well-formed line is in the ledger afterwards.
C6_ImportNeverAborts ==
    [][\A src \in Sources(ImportLines) :
         populate_from_log(TRUE, src)
         => /\ raised' = "no"
            /\ \A k \in 1..Len(src) :
                  well_formed(src[k])
                  => play_exists(plays', src[k].timestamp,
                                 resolve_canonical_user(entry_user(src[k]), users', aliases').val,
                                 src[k].song)]_vars

\* C11: for every date filter and user filter (none, a name, an alias, a name
\* never seen), get_plays_count returns the number of rows get_last_plays
\* returns with no limit and offset 0.
C11_CountIsLengthOfLastPlays ==
    \A d \in Dates \cup {NoDate}, p \in Names \cup {NoName} :
        \A rows \in get_last_plays_rows(NoLimit, 0, d, p, users, aliases, plays) :
            Len(rows) = get_plays_count_value(d, p, users, aliases, plays)

\* C11 witness: plays of two days, one recorded through the alias al, so that
\* the filters (day 0, al) select one play of two; bob was never seen
C11_Witness ==
    /\ Len(plays) = 2
    /\ DateOf(plays[1].timestamp) # DateOf(plays[2].timestamp)
    /\ "al" \in DOMAIN aliases /\ aliases["al"] = "alice"
    /\ plays[1].canonical_name = "alice"
    /\ "bob" \notin users
    /\ get_plays_count_value(0, "al", users, aliases, plays) = 1

C13_BadPeriodRaises ==
    /\ [](\A period \in OtherPeriods, l \in Limits :
            top_songs_by_period(period, l, plays, now).raised = "ValueError")
    /\ [][\A period \in OtherPeriods, l \in Limits :
            get_top_songs_by_period(period, l)
            => raised' = "ValueError" /\ UNCHANGED <<users, aliases, plays>>]_vars

\* C13 witness: the call has raised while the ledger holds a completed play
\* of the current day
C13_Witness ==
    /\ raised = "ValueError"
    /\ \E i \in 1..Len(plays) : plays[i].completed /\ DateOf(plays[i].timestamp) = DateOf(now)

\* C14: when calls that create an identity run concurrently, no call raises
\* a uniqueness error, every resolution that is over has returned a name, and
\* that name is a row of users, which holds each name once (its primary key).
C14_RacingIdentityCreation ==
    \A w \in Workers :
        /\ calls[w].raised = "no"
        /\ calls[w].pc \in {"done", "write", "write_commit"}
           => /\ calls[w].val # NoName
              /\ calls[w].val \in users
              /\ calls[w].val \in {calls[w].user, "bob"}
        /\ calls[w].pc = "commit" => tx.pc = "resolve" /\ calls[w].user \in tx.users

\* C14 witness: both workers resolve bob; the first has returned, and the
\* second holds the transaction of its INSERT OR IGNORE, which found the row
\* committed already and added nothing
C14_Witness ==
    /\ calls["w1"].pc = "done" /\ calls["w1"].user = "bob" /\ calls["w1"].val = "bob"
    /\ calls["w2"].pc = "commit" /\ calls["w2"].user = "bob"
    /\ "bob" \in users
    /\ users = tx.users

\* the ids of the rows of plays
play_ids(P) == {P[i].id : i \in 1..Len(P)}

\* C15: update_play with an id that no play has raises nothing and changes no
\* row of any table, whatever user and song are passed.
C15_UpdateUnknownPlayIsNoOp ==
    [][\A i \in PlayIds, u \in Names \cup {NoName}, s \in Songs \cup {NoSong} :
         (i \notin play_ids(plays) /\ update_play(i, u, s))
         => raised' = "no" /\ UNCHANGED <<users, aliases, plays>>]_vars

\* C18: update_play on the id of a play sets that play's canonical_name to
\* resolve(user) when a user is passed and its song when a song is passed,
\* and changes nothing else of the play, no other play and no alias row.
C18_UpdatePlayFrame ==
    [][\A i \in PlayIds, u \in Names \cup {NoName}, s \in Songs \cup {NoSong} :
         (i \in play_ids(plays) /\ update_play(i, u, s))
         => /\ Len(plays') = Len(plays)
            /\ \A j \in 1..Len(plays) :
                  plays'[j] =
                     IF plays[j].id = i
                     THEN [plays[j] EXCEPT
                             !.canonical_name = IF u # NoName THEN resolve_value(u) ELSE @,
                             !.song = IF s # NoSong THEN s ELSE @]
                     ELSE plays[j]
            /\ aliases' = aliases]_vars

\* C18 witness: two plays recorded under al before al became an alias of
\* alice; the first was then corrected to al, which now resolves to alice,
\* and to song Y, the second is as recorded
C18_Witness ==
    /\ Len(plays) = 2
    /\ "al" \in DOMAIN aliases /\ aliases["al"] = "alice"
    /\ plays[1].canonical_name = "alice" /\ plays[1].song = "Y"
    /\ plays[2].canonical_name = "al" /\ plays[2].song = "X"

\* the plays a result of get_plays_by_user names, as get_last_plays shows them
events_by_user(rows) == {<<rows[k][2], rows[k][3], rows[k][4], rows[k][5]>> : k \in 1..Len(rows)}

\* the plays a result of get_last_plays names
events_last(rows) == {rows[k] : k \in 1..Len(rows)}

\* C16: for every user p and date d, get_plays_by_user(p, d) returns the
\* plays that get_last_plays returns for the same filters with no limit, and
\* when p is an alias of c these are the plays stored under c (on day d).
C16_SameFilterModel ==
    \A p \in Names, d \in Dates \cup {NoDate} :
        \A by_user \in get_plays_by_user_rows(p, d, users, aliases, plays),
           last \in get_last_plays_rows(NoLimit, 0, d, p, users, aliases, plays) :
            /\ Len(by_user) = Len(last)
            /\ events_by_user(by_user) = events_last(last)
            /\ p \in DOMAIN aliases
               => events_last(last) =
                    {last_plays_row(plays, i) :
                        i \in {j \in 1..Len(plays) :
                                 /\ plays[j].canonical_name = aliases[p]
                                 /\ d # NoDate => DateOf(plays[j].timestamp) = d}}

\* C17: resolving the name that a resolution returned returns that name again.
C17_ResolveIdempotent ==
    \A n \in Names :
        LET first == resolve_canonical_user(n, users, aliases)
        IN resolve_canonical_user(first.val, first.users, aliases).val = first.val

\* C19: no step removes a row of users or the id of a play, and add_play
\* adds exactly one play, with an id no play had, also when a play of the
\* same name, song and timestamp exists.
C19_OnlyGrows ==
    /\ [](\A song \in Songs, user \in Names, completed \in BOOLEAN :
            LET P == insert_play(plays, now, resolve_value(user), song, <<>>, completed)
            IN /\ Len(P) = Len(plays) + 1
               /\ P[Len(P)].id \notin play_ids(plays)
               /\ \A i \in 1..Len(plays) : P[i] = plays[i])
    /\ [][/\ users \subseteq users'
          /\ play_ids(plays) \subseteq play_ids(plays')
          /\ \A song \in Songs, user \in Names, completed \in BOOLEAN :
                add_play(song, user, completed)
                => /\ Len(plays') = Len(plays) + 1
                   /\ Cardinality(play_ids(plays') \ play_ids(plays)) = 1]_vars

\* C19 witness: two plays with the same name, song, timestamp and flag under
\* two ids, recorded through the alias al
C19_Witness ==
    /\ Len(plays) = 2
    /\ plays[1].id # plays[2].id
    /\ [plays[2] EXCEPT !.id = plays[1].id] = plays[1]
    /\ plays[1].duration = <<>>
    /\ plays[1].canonical_name = "alice"
    /\ "al" \in DOMAIN aliases /\ "al" \notin users

\* C20: once a log file has been imported (the ledger of SpecReimport holds a
\* play only after an import of ReimportSource has completed), importing it
\* again inserts no play, whatever set_user_alias and remove_user_alias calls
\* came in between.
C20_ReimportAfterAliasChange ==
    [][(plays # <<>> /\ populate_from_log(TRUE, ReimportSource))
       => plays' = plays]_vars

\* C21: when two workers import the same log file at the same time into a
\* ledger without its records, the ledger they leave holds at most one play
\* for each timestamp, name and song of the file.
C21_ConcurrentImportsDoNotDuplicate ==
    (\A w \in Workers : calls[w].pc \in {"idle", "done"})
    => \A i, j \in 1..Len(plays) :
          (/\ plays[i].timestamp = plays[j].timestamp
           /\ plays[i].canonical_name = plays[j].canonical_name
           /\ plays[i].song = plays[j].song) => i = j

\* what a read operation with the user filter user_filter may change: no
\* play and no alias row; table users gains the filter name when that name
\* is given and is no alias key (it may be a row of users already)
read_frame(user_filter) ==
    /\ plays' = plays
    /\ aliases' = aliases
    /\ users' = IF user_filter # NoName /\ user_filter \notin DOMAIN aliases
                THEN users \cup {user_filter}
                ELSE users

\* C22: the read operations change no play and no alias row; those with a
\* user filter add at most the filter name to users, and only when it is no
\* alias key; those without a user filter change no table.
C22_ReadFrame ==
    [][/\ \A l \in {1, NoLimit}, d \in {NoDate, 0}, u \in Names \cup {NoName} :
             get_last_plays(l, 0, d, u) => read_frame(u)
       /\ \A d \in {NoDate, 0}, u \in Names \cup {NoName} :
             /\ get_plays_count(d, u) => read_frame(u)
             /\ get_plays_by_user(u, d) => read_frame(u)
       /\ \A l \in Limits : get_top_songs(l) => read_frame(NoName)
       /\ \A b \in {"user", "count"}, o \in {"ASC", "DESC"} :
             get_top_users(1, 0, b, o) => read_frame(NoName)
       /\ get_top_users_count => read_frame(NoName)
       /\ \A period \in Periods \cup OtherPeriods :
             get_top_songs_by_period(period, 1) => read_frame(NoName)
       /\ get_user_aliases => read_frame(NoName)
       /\ get_distinct_users => read_frame(NoName)
       /\ get_distinct_dates => read_frame(NoName)
       /\ get_distinct_songs => read_frame(NoName)]_vars

\* C22 witness: al is a row of users, which only a read filtered by al can
\* have made it, before al became an alias of alice and alice one of bob;
\* the ledger holds a play
C22_Witness ==
    /\ "al" \in users
    /\ "al" \in DOMAIN aliases /\ aliases["al"] = "alice"
    /\ "alice" \in DOMAIN aliases /\ aliases["alice"] = "bob"
    /\ Len(plays) > 0

====
